---- MODULE Spec2Model ----
(***************************************************************************)
(* Model of tools/wptrunner/wptrunner/environment.py: the TestEnvironment  *)
(* context manager (__enter__/__exit__), build_config, the logging proxy   *)
(* (ProxyLoggingContext / LoggerProxy) and the readiness poller            *)
(* (ensure_started / test_servers).                                        *)
(*                                                                         *)
(* Spec      : the lifecycle of two TestEnvironment objects driven by one   *)
(*             single-threaded caller, one source statement per step, with *)
(*             the consumer thread and the queue feeder of each object;    *)
(*             no worker process logs.                                     *)
(* SpecPoll  : ensure_started polling test_servers on the fleet of one     *)
(*             entered TestEnvironment. Time is counted in ticks of        *)
(*             each_sleep_secs (0.5 s).                                    *)
(* SpecLog   : one entered TestEnvironment whose worker processes log      *)
(*             through the handle while __exit__ shuts the logging proxy   *)
(*             down; SpecLogFair adds that time passes in join.            *)
(* SpecConfig: the build_config statements of __enter__ on drawn options,  *)
(*             enable_quic and config.json.                                *)
(***************************************************************************)
EXTENDS Integers, Sequences, FiniteSets, TLC

\* ------------------------------------------------------------------ bounds
NumExtras == 2      \* length of env_extras
MaxEnters == 2      \* __enter__ calls the caller makes on one object
MaxRecords == 2     \* records the worker processes put on log_queue

\* Two TestEnvironment objects live in the process.
Envs == {1, 2}

\* env_extras: the caller-supplied list of extra context-manager factories
env_extras == [k \in 1..NumExtras |-> k]

\* A resource is named by its group and, for extras, its index in env_extras.
Ev(r, k) == <<r, k>>
Groups == {"logging", "config", "stash", "cache", "extra", "fleet"}
ResKeys == {Ev(g, 0) : g \in Groups \ {"extra"}} \cup {Ev("extra", k) : k \in 1..NumExtras}

\* The worker processes of a fleet that hold the handle __enter__ returned.
Workers == {"worker1", "worker2"}

\* The processes that put on a log_queue: the one that owns the TestEnvironment and the
\* worker processes of its fleet.
Procs == {"main"} \cup Workers

VARIABLES
    cur,            \* the object of the executing (or, when idle, the latest) call
    op,             \* the method of that call: "enter" / "exit" / "none"
    pc,             \* the statement of the method about to run; "idle" between calls
    idx,            \* loop index of the executing for-loop over extras
    exc_arg,        \* exit's exc_type argument: "none" or the caller's exception
    env_extras_cms, \* per object: [set |-> FALSE] is None, else the list cms
    held,           \* per object: __enter__ calls minus __exit__/kill calls, per resource
    acqOrder,       \* per object: resources acquired by the last __enter__, in order
    relOrder,       \* resources released by the executing or latest __exit__, in order
    outcome,        \* how the executing or latest call ended
    scopes,         \* per object: successful __enter__ returns not yet followed by __exit__
    sigint,         \* process-wide SIGINT disposition
    interactive,    \* per object: options["supports_debugger"] and debug_info.interactive
    enterCalls,     \* per object: number of __enter__ calls made
    lastRet,        \* value returned by the latest extra cm.__exit__ of this __exit__
    servers,        \* per object: self.servers, <<scheme, <<port, ...>>>> in dict order
    config,         \* per object: the ConfigBuilder build_config fills in, self.config
    \* ---- readiness poller (ensure_started / test_servers)
    test_server_port, \* the option popped at line 138
    alive,          \* port -> server.is_alive(), as the latest poll saw it
    listening,      \* port -> whether connect((host, port)) succeeds, at the latest poll
    ppc,            \* where ensure_started is: "loop" / "sleep" / "returned" / "raised"
    now,            \* time.time() in ticks since ensure_started was called
    failed,         \* the failed list of the latest test_servers call
    pending,        \* the pending list of the latest test_servers call
    connects,       \* the (host, port) connections the latest test_servers call attempted
    message,        \* the text of the error ensure_started raised, as tokens
    polls,          \* test_servers calls made by ensure_started
    sleeps,         \* time.sleep calls made by ensure_started
    \* ---- logging proxy (ProxyLoggingContext / LoggerProxy), per object
    buffers,        \* per object and process: the items put and not yet fed to the pipe
    log_queue,      \* per object: the items in the queue's pipe, oldest first
    produced,       \* per object: every item ever put, in the order the puts returned
    delivered,      \* per object: levels of the records its thread had server_logger emit
    thread,         \* per object: self.logging_thread: "new" / "running" / "done"
    waited,         \* time units the executing join of line 121 has waited
    \* ---- the arguments the objects were constructed with
    enable_quic,    \* self.enable_quic
    options,        \* self.options: option name -> value, for the names present
    override_obj    \* config.json: [exists, ports, fields]

lifecycleVars == <<cur, op, pc, idx, exc_arg, env_extras_cms, held, acqOrder, relOrder,
                   outcome, scopes, sigint, interactive, enterCalls, lastRet>>

pollVars == <<test_server_port, alive, listening, ppc, now, failed, pending,
              connects, message, polls, sleeps>>

logVars == <<buffers, log_queue, produced, delivered, thread, waited>>

inputVars == <<enable_quic, options, override_obj>>

vars == <<lifecycleVars, servers, config, pollVars, logVars, inputVars>>

\* ------------------------------------------------------------- helpers
CmsNone == [set |-> FALSE, cms |-> <<>>]
CmsList(s) == [set |-> TRUE, cms |-> s]

NoEv == Ev("none", 0)

\* How a call ended: returned or raised; the exception raised, the statement's
\* resource it was raised at and its __context__; the value returned by __exit__;
\* and whether the call was an __enter__ on an object whose scope was active.
NoOutcome == [op |-> "none", status |-> "none", raised |-> "none", at |-> NoEv,
              context |-> "none", suppress |-> FALSE, nested |-> FALSE]

\* Python raises `err` while `handling` is being handled: the new exception
\* carries the one being handled as its __context__.
Raised(o, err, where, handling, isNested) ==
    [op |-> o, status |-> "raised", raised |-> err, at |-> where, context |-> handling,
     suppress |-> FALSE, nested |-> isNested]

Returned(o, ret, isNested) ==
    [op |-> o, status |-> "returned", raised |-> "none", at |-> NoEv, context |-> "none",
     suppress |-> ret, nested |-> isNested]

Acquire(c, e) ==
    /\ held' = [held EXCEPT ![c][e] = @ + 1]
    /\ acqOrder' = [acqOrder EXCEPT ![c] = Append(@, e)]

Release(c, e) ==
    /\ held' = [held EXCEPT ![c][e] = IF @ > 0 THEN @ - 1 ELSE 0]
    /\ relOrder' = Append(relOrder, e)

\* The call on c ends: control returns to the caller with outcome o.
EndCall(c, o) ==
    /\ pc' = "idle"
    /\ idx' = 0
    /\ outcome' = o
    /\ UNCHANGED <<cur, op>>

Goto(p) ==
    /\ pc' = p
    /\ UNCHANGED <<cur, op, outcome>>

At(c, o, p) == cur = c /\ op = o /\ pc = p

Idle == pc = "idle"

\* ---------------------------------------------------- statement order
\* EnterNext with the cache manager entered before the stash.
EnterNextCacheFirst(p) ==
    CASE p = "logging" -> "build_ports"
      [] p = "build_ports" -> "build_override"
      [] p = "build_override" -> "build_ssl"
      [] p = "build_ssl" -> "build_browser_host"
      [] p = "build_browser_host" -> "build_bind_address"
      [] p = "build_bind_address" -> "build_server_host"
      [] p = "build_server_host" -> "config"
      [] p = "config"  -> "cache"
      [] p = "cache"   -> "stash"
      [] p = "stash"   -> "check_nested"
      [] p = "check_nested" -> "extras"
      [] p = "extras"  -> "routes"
      [] p = "routes"  -> "serve_start"
      [] p = "serve_start" -> "interrupts"
      [] OTHER -> "return"

\* __enter__: the statement that follows statement p when p does not raise; the
\* statements of build_config (lines 203-236) come between lines 152 and 155.
EnterNext(p) ==
    CASE p = "logging" -> "build_ports"
      [] p = "build_ports" -> "build_override"
      [] p = "build_override" -> "build_ssl"
      [] p = "build_ssl" -> "build_browser_host"
      [] p = "build_browser_host" -> "build_bind_address"
      [] p = "build_bind_address" -> "build_server_host"
      [] p = "build_server_host" -> "config"
      [] p = "config"  -> "stash"
      [] p = "stash"   -> "cache"
      [] p = "cache"   -> "check_nested"
      [] p = "check_nested" -> "extras"
      [] p = "extras"  -> "routes"
      [] p = "routes"  -> "serve_start"
      [] p = "serve_start" -> "interrupts"
      [] OTHER -> "return"

\* ExitNext with the stash released before the cache manager.
ExitNextStashFirst(p) ==
    CASE p = "process_interrupts" -> "kill"
      [] p = "kill"    -> "extras"
      [] p = "extras"  -> "clear"
      [] p = "clear"   -> "stash"
      [] p = "stash"   -> "cache"
      [] p = "cache"   -> "config"
      [] p = "config"  -> "logging"
      [] p = "logging" -> "join"
      [] OTHER -> "return"

\* __exit__: the statement that follows statement p when p does not raise; line 192
\* is the put of line 119 and then the join of line 121.
ExitNext(p) ==
    CASE p = "process_interrupts" -> "kill"
      [] p = "kill"    -> "extras"
      [] p = "extras"  -> "clear"
      [] p = "clear"   -> "cache"
      [] p = "cache"   -> "stash"
      [] p = "stash"   -> "config"
      [] p = "config"  -> "logging"
      [] p = "logging" -> "join"
      [] OTHER -> "return"

\* ExitReturn handing back what the last extra's __exit__ returned.
ExitReturnLastCm(ret) == ret

\* The value __exit__ hands back to the with-statement: the method has no
\* return statement, so it is None (falsy) whatever the extras returned.
ExitReturn(ret) == FALSE

\* ------------------------------------------------------------ logging proxy
Range(s) == {s[i] : i \in DOMAIN s}

\* The five severities of LoggerProxy's methods (lines 82-95), most severe first.
LogLevels == <<"critical", "error", "warning", "info", "debug">>

LevelNumber(l) == CHOOSE i \in DOMAIN LogLevels : LogLevels[i] = l

\* line 119: the item that tells the consumer thread to stop
None == "None"

\* What a filter returns for a record it does not admit.
Dropped == "dropped"

\* handlers.LogLevelFilter(inner, level): admits the records at least as severe as level
LogLevelFilter(data, level) ==
    IF data # Dropped /\ LevelNumber(data) <= LevelNumber(level) THEN data ELSE Dropped

\* LogLevelRewriter(inner, from_levels, to_level): rewrites the level, then calls inner
LogLevelRewriter(data, from_levels, to_level) ==
    IF data \in from_levels THEN to_level ELSE data

\* lines 104-107: server_logger.component_filter
component_filter(data) ==
    LogLevelFilter(LogLevelRewriter(data, {"error"}, "warning"), "info")

\* lines 63 and 119: Queue.put of a multiprocessing queue returns once the item is in
\* the buffer of the calling process; the feeder thread of that process writes it to
\* the pipe later.
put(bufs, proc, data) == [bufs EXCEPT ![proc] = Append(@, data)]

\* lines 111, 115: logging_thread is created once, in __init__; start() on a thread that
\* has been started raises RuntimeError
ThreadStartRaises(t) == t # "new"

\* join that never gives up waiting.
JoinNeverExpires(w) == FALSE

\* line 121: the timeout of logging_thread.join, in time units
join_timeout == 1

\* line 121: join(1) stops waiting once the timeout has elapsed
JoinExpired(w) == w >= join_timeout

IsRecord(x) == x # None

\* -------------------------------------------------------------- build_config
OptionNames == {"browser_host", "bind_address", "server_host", "encrypt_after_connect"}

\* The option bags: each option absent, or present with the caller's value.
OptionBags == UNION {[names -> {"option.test"}] : names \in SUBSET OptionNames}

NoOverride == [exists |-> FALSE, ports |-> <<>>, fields |-> <<>>]

\* The config.json documents: none, or one overriding ports or host fields.
Overrides ==
    { NoOverride,
      [exists |-> TRUE, ports |-> ("http" :> <<9999>>), fields |-> <<>>],
      [exists |-> TRUE, ports |-> ("quic-transport" :> <<1234>>), fields |-> <<>>],
      [exists |-> TRUE, ports |-> <<>>, fields |-> ("server_host" :> "override.test")],
      [exists |-> TRUE, ports |-> <<>>,
       fields |-> [k \in {"browser_host", "bind_address"} |-> "override.test"]] }

\* lines 132-133: self.config is None before __enter__
NoConfig == [ports |-> <<>>, browser_host |-> "None", bind_address |-> "None",
             server_host |-> "None", check_subdomains |-> "None",
             encrypt_after_connect |-> "None", doc_root |-> "None"]

\* serve.ConfigBuilder(): the configuration before build_config sets anything
ConfigBuilder ==
    [ports |-> <<>>, browser_host |-> "web-platform.test", bind_address |-> "True",
     server_host |-> "None", check_subdomains |-> "True",
     encrypt_after_connect |-> "False", doc_root |-> "None"]

\* lines 205-213: the port list the ports dict gives a scheme
port_list(scheme) ==
    CASE scheme = "http" -> <<8000, 8001>>
      [] scheme = "https" -> <<8443, 8444>>
      [] scheme = "ws" -> <<8888>>
      [] scheme = "wss" -> <<8889>>
      [] scheme = "h2" -> <<9000>>
      [] scheme = "quic-transport" -> <<10000>>

\* The ports table with the quic-transport entry whatever enable_quic is.
ports_always_quic(quic) ==
    [scheme \in {"http", "https", "ws", "wss", "h2", "quic-transport"} |->
        port_list(scheme)]

\* lines 205-213: the ports table
ports(quic) ==
    [scheme \in {"http", "https", "ws", "wss", "h2"}
                    \cup (IF quic THEN {"quic-transport"} ELSE {}) |->
        port_list(scheme)]

\* ConfigBuilder.update: the document's values replace the values of the keys the
\* configuration already has, key by key inside the ports table.
update(cfg, obj) ==
    [k \in DOMAIN cfg |->
        IF k = "ports"
        THEN [s \in DOMAIN cfg.ports |->
                 IF s \in DOMAIN obj.ports THEN obj.ports[s] ELSE cfg.ports[s]]
        ELSE IF k \in DOMAIN obj.fields THEN obj.fields[k] ELSE cfg[k]]

\* dict.get(key, default) on self.options
Get(key, default) == IF key \in DOMAIN options THEN options[key] ELSE default

\* ------------------------------------------------------------------- fleets
HttpFleet == << <<"http", <<8000, 8001>> >> >>

\* The fleets serve.start returns: self.servers.
Fleets ==
    { HttpFleet,
      << <<"https", <<8443>> >>, <<"quic-transport", <<10000>> >> >> }

\* ---------------------------------------------------------- initial states
\* ensure_started has not been called.
PollerNotCalled ==
    /\ test_server_port = TRUE
    /\ alive = <<>>
    /\ listening = <<>>
    /\ ppc = "none"
    /\ now = 0
    /\ failed = <<>>
    /\ pending = <<>>
    /\ connects = <<>>
    /\ message = <<>>
    /\ polls = 0
    /\ sleeps = 0

\* The objects are constructed with no option, enable_quic False and no config.json.
DefaultArguments ==
    /\ enable_quic = FALSE
    /\ options = <<>>
    /\ override_obj = NoOverride

\* lines 127-149 and 101-112: __init__
Init ==
    /\ cur = 1
    /\ op = "none"
    /\ pc = "idle"
    /\ idx = 0
    /\ exc_arg = "none"
    /\ env_extras_cms = [c \in Envs |-> CmsNone]
    /\ held = [c \in Envs |-> [e \in ResKeys |-> 0]]
    /\ acqOrder = [c \in Envs |-> <<>>]
    /\ relOrder = <<>>
    /\ outcome = NoOutcome
    /\ scopes = [c \in Envs |-> 0]
    /\ sigint = "SIG_DFL"
    /\ interactive \in [Envs -> BOOLEAN]
    /\ enterCalls = [c \in Envs |-> 0]
    /\ lastRet = FALSE
    /\ servers = [c \in Envs |-> <<>>]
    /\ config = [c \in Envs |-> NoConfig]
    /\ PollerNotCalled
    /\ buffers = [c \in Envs |-> [p \in Procs |-> <<>>]]
    /\ log_queue = [c \in Envs |-> <<>>]
    /\ produced = [c \in Envs |-> <<>>]
    /\ delivered = [c \in Envs |-> <<>>]
    /\ thread = [c \in Envs |-> "new"]
    /\ waited = 0
    /\ DefaultArguments

\* The configuration build_config returns for the default arguments.
DefaultConfig ==
    [ConfigBuilder EXCEPT !.ports = ports(FALSE), !.check_subdomains = "False",
                          !.doc_root = "tests_path"]

\* Object 1 is in scope: the state in which its __enter__, called on the constructed
\* objects, returned with the fleet f.
Entered(f) ==
    /\ cur = 1
    /\ op = "enter"
    /\ pc = "idle"
    /\ idx = 0
    /\ exc_arg = "none"
    /\ env_extras_cms = [c \in Envs |-> IF c = 1 THEN CmsList(env_extras) ELSE CmsNone]
    /\ held = [c \in Envs |-> [e \in ResKeys |-> IF c = 1 THEN 1 ELSE 0]]
    /\ acqOrder = [c \in Envs |-> IF c = 1
                     THEN <<Ev("logging", 0), Ev("config", 0), Ev("stash", 0), Ev("cache", 0)>>
                          \o [k \in 1..NumExtras |-> Ev("extra", env_extras[k])]
                          \o <<Ev("fleet", 0)>>
                     ELSE <<>>]
    /\ relOrder = <<>>
    /\ outcome = Returned("enter", FALSE, FALSE)
    /\ scopes = [c \in Envs |-> IF c = 1 THEN 1 ELSE 0]
    /\ sigint = "SIG_DFL"
    /\ interactive = [c \in Envs |-> FALSE]
    /\ enterCalls = [c \in Envs |-> IF c = 1 THEN 1 ELSE 0]
    /\ lastRet = FALSE
    /\ servers = [c \in Envs |-> IF c = 1 THEN f ELSE <<>>]
    /\ config = [c \in Envs |-> IF c = 1 THEN DefaultConfig ELSE NoConfig]
    /\ buffers = [c \in Envs |-> [p \in Procs |-> <<>>]]
    /\ log_queue = [c \in Envs |-> <<>>]
    /\ produced = [c \in Envs |-> <<>>]
    /\ delivered = [c \in Envs |-> <<>>]
    /\ thread = [c \in Envs |-> IF c = 1 THEN "running" ELSE "new"]
    /\ waited = 0
    /\ DefaultArguments

\* lines 194-195: ignore_interrupts() sets SIGINT to SIG_IGN
ignore_interrupts == "SIG_IGN"

\* process_interrupts leaving the disposition as it is.
process_interrupts_noop == sigint

\* lines 197-198: process_interrupts() sets SIGINT to SIG_DFL
process_interrupts == "SIG_DFL"

\* ------------------------------------------------------------ __enter__
\* lines 152 and 114-116: the caller calls __enter__; server_logging_ctx.__enter__()
\* starts the consumer thread, or raises when the thread was started before
EnterLogging(c) ==
    /\ Idle
    /\ enterCalls[c] < MaxEnters
    /\ enterCalls' = [enterCalls EXCEPT ![c] = @ + 1]
    /\ cur' = c
    /\ op' = "enter"
    /\ idx' = 0
    /\ exc_arg' = "none"
    /\ relOrder' = <<>>
    /\ lastRet' = FALSE
    /\ IF ThreadStartRaises(thread[c])
       THEN /\ pc' = "idle"
            /\ outcome' = Raised("enter", "RuntimeError", Ev("logging", 0), "none",
                                 scopes[c] > 0)
            /\ acqOrder' = [acqOrder EXCEPT ![c] = <<>>]
            /\ UNCHANGED <<held, thread>>
       ELSE /\ pc' = EnterNext("logging")
            /\ outcome' = [NoOutcome EXCEPT !.op = "enter", !.status = "running",
                                             !.nested = (scopes[c] > 0)]
            /\ held' = [held EXCEPT ![c][Ev("logging", 0)] = @ + 1]
            /\ acqOrder' = [acqOrder EXCEPT ![c] = <<Ev("logging", 0)>>]
            /\ thread' = [thread EXCEPT ![c] = "running"]
    /\ UNCHANGED <<env_extras_cms, scopes, sigint, interactive>>
    /\ UNCHANGED <<servers, config, pollVars, inputVars>>
    /\ UNCHANGED <<buffers, log_queue, produced, delivered, waited>>

\* A statement of build_config that leaves self.config_ctx's builder as cfg.
BuildStep(c, p, cfg) ==
    /\ At(c, "enter", p)
    /\ config' = [config EXCEPT ![c] = cfg]
    /\ Goto(EnterNext(p))
    /\ UNCHANGED <<idx, exc_arg, env_extras_cms, held, acqOrder, relOrder, scopes, sigint,
                   interactive, enterCalls, lastRet>>
    /\ UNCHANGED <<servers, pollVars, logVars, inputVars>>

\* lines 203-214: config = ConfigBuilder(...); config.ports = ports
ConfigPorts(c) ==
    BuildStep(c, "build_ports", [ConfigBuilder EXCEPT !.ports = ports(enable_quic)])

\* lines 216-219: if config.json exists, config.update(override_obj)
ConfigOverride(c) ==
    BuildStep(c, "build_override",
              IF override_obj.exists THEN update(config[c], override_obj) ELSE config[c])

\* lines 221-225: check_subdomains = False; ssl with encrypt_after_connect
ConfigSsl(c) ==
    BuildStep(c, "build_ssl",
              [config[c] EXCEPT !.check_subdomains = "False",
                                !.encrypt_after_connect = Get("encrypt_after_connect", "False")])

\* lines 227-228: if "browser_host" in self.options
ConfigBrowserHost(c) ==
    BuildStep(c, "build_browser_host",
              IF "browser_host" \in DOMAIN options
              THEN [config[c] EXCEPT !.browser_host = options["browser_host"]]
              ELSE config[c])

\* lines 230-231: if "bind_address" in self.options
ConfigBindAddress(c) ==
    BuildStep(c, "build_bind_address",
              IF "bind_address" \in DOMAIN options
              THEN [config[c] EXCEPT !.bind_address = options["bind_address"]]
              ELSE config[c])

\* lines 233-236: config.server_host = self.options.get("server_host", None); doc_root;
\* return config
ConfigServerHost(c) ==
    BuildStep(c, "build_server_host",
              [config[c] EXCEPT !.server_host = Get("server_host", "None"),
                                !.doc_root = "tests_path"])

\* lines 153-155: config_ctx is what build_config returned; config = config_ctx.__enter__()
EnterConfig(c) ==
    /\ At(c, "enter", "config")
    /\ Acquire(c, Ev("config", 0))
    /\ Goto(EnterNext("config"))
    /\ UNCHANGED <<idx, exc_arg, env_extras_cms, relOrder, scopes, sigint, interactive,
                   enterCalls, lastRet>>
    /\ UNCHANGED <<servers, config, pollVars, logVars, inputVars>>

\* line 157: stash.__enter__()
EnterStash(c) ==
    /\ At(c, "enter", "stash")
    /\ Acquire(c, Ev("stash", 0))
    /\ Goto(EnterNext("stash"))
    /\ UNCHANGED <<idx, exc_arg, env_extras_cms, relOrder, scopes, sigint, interactive,
                   enterCalls, lastRet>>
    /\ UNCHANGED <<servers, config, pollVars, logVars, inputVars>>

\* line 158: cache_manager.__enter__()
EnterCacheManager(c) ==
    /\ At(c, "enter", "cache")
    /\ Acquire(c, Ev("cache", 0))
    /\ Goto(EnterNext("cache"))
    /\ UNCHANGED <<idx, exc_arg, env_extras_cms, relOrder, scopes, sigint, interactive,
                   enterCalls, lastRet>>
    /\ UNCHANGED <<servers, config, pollVars, logVars, inputVars>>

\* The nesting check of lines 160-161: does the check let __enter__ go on?
NotNested(cms) == ~cms.set

\* lines 160-163: assert env_extras_cms is None; env_extras_cms = []
EnterCheckNotNested(c) ==
    /\ At(c, "enter", "check_nested")
    /\ IF NotNested(env_extras_cms[c])
       THEN /\ env_extras_cms' = [env_extras_cms EXCEPT ![c] = CmsList(<<>>)]
            /\ Goto(EnterNext("check_nested"))
            /\ idx' = 1
       ELSE /\ EndCall(c, Raised("enter", "AssertionError", NoEv, "none", outcome.nested))
            /\ UNCHANGED env_extras_cms
    /\ UNCHANGED <<exc_arg, held, acqOrder, relOrder, scopes, sigint, interactive,
                   enterCalls, lastRet>>
    /\ UNCHANGED <<servers, config, pollVars, logVars, inputVars>>

\* lines 165-168: one iteration of the loop over env_extras; cm.__enter__() may raise
EnterExtra(c) ==
    /\ At(c, "enter", "extras")
    /\ idx <= Len(env_extras)
    /\ \E ok \in BOOLEAN :
         IF ok
         THEN /\ Acquire(c, Ev("extra", env_extras[idx]))
              /\ env_extras_cms' = [env_extras_cms EXCEPT
                                      ![c] = CmsList(Append(@.cms, env_extras[idx]))]
              /\ idx' = idx + 1
              /\ Goto("extras")
         ELSE /\ EndCall(c, Raised("enter", "StartError", Ev("extra", env_extras[idx]),
                                     "none", outcome.nested))
              /\ UNCHANGED <<held, acqOrder, env_extras_cms>>
    /\ UNCHANGED <<exc_arg, relOrder, scopes, sigint, interactive, enterCalls, lastRet>>
    /\ UNCHANGED <<servers, config, pollVars, logVars, inputVars>>

\* line 171: the loop is over; get_routes() is evaluated as an argument of serve.start
EnterGetRoutes(c) ==
    /\ At(c, "enter", "extras")
    /\ idx > Len(env_extras)
    /\ Goto(EnterNext(EnterNext("extras")))
    /\ idx' = 0
    /\ UNCHANGED <<exc_arg, env_extras_cms, held, acqOrder, relOrder, scopes, sigint,
                   interactive, enterCalls, lastRet>>
    /\ UNCHANGED <<servers, config, pollVars, logVars, inputVars>>

\* lines 170-172: self.servers = serve.start(...); the collaborator returns a fleet or
\* fails to start
EnterServeStart(c) ==
    /\ At(c, "enter", "serve_start")
    /\ \E ok \in BOOLEAN :
         IF ok
         THEN /\ \E f \in Fleets : servers' = [servers EXCEPT ![c] = f]
              /\ Acquire(c, Ev("fleet", 0))
              /\ Goto(EnterNext("serve_start"))
              /\ idx' = idx
         ELSE /\ EndCall(c, Raised("enter", "StartError", Ev("fleet", 0),
                                     "none", outcome.nested))
              /\ UNCHANGED <<held, acqOrder, servers>>
    /\ UNCHANGED <<exc_arg, env_extras_cms, relOrder, scopes, sigint, interactive,
                   enterCalls, lastRet>>
    /\ UNCHANGED <<config, pollVars, logVars, inputVars>>

\* lines 174-176 and 194-195: ignore_interrupts() when debugging interactively; return self
EnterInterrupts(c) ==
    /\ At(c, "enter", "interrupts")
    /\ sigint' = IF interactive[c] THEN ignore_interrupts ELSE sigint
    /\ scopes' = [scopes EXCEPT ![c] = @ + 1]
    /\ EndCall(c, Returned("enter", FALSE, outcome.nested))
    /\ UNCHANGED <<exc_arg, env_extras_cms, held, acqOrder, relOrder, interactive,
                   enterCalls, lastRet>>
    /\ UNCHANGED <<servers, config, pollVars, logVars, inputVars>>

\* ------------------------------------------------------------- __exit__
\* lines 178-179 and 197-198: the with-statement that entered c calls __exit__ with its
\* exception context e; process_interrupts()
ExitProcessInterrupts(c, e) ==
    /\ Idle
    /\ scopes[c] > 0
    /\ scopes' = [scopes EXCEPT ![c] = @ - 1]
    /\ cur' = c
    /\ op' = "exit"
    /\ pc' = ExitNext("process_interrupts")
    /\ idx' = 0
    /\ exc_arg' = e
    /\ outcome' = [NoOutcome EXCEPT !.op = "exit", !.status = "running"]
    /\ relOrder' = <<>>
    /\ lastRet' = FALSE
    /\ sigint' = process_interrupts
    /\ UNCHANGED <<env_extras_cms, held, acqOrder, interactive, enterCalls>>
    /\ UNCHANGED <<servers, config, pollVars, logVars, inputVars>>

\* A release step raises: __exit__ is left at once, the rest of its body does not run.
ExitRaise(c, e) == EndCall(c, Raised("exit", "TeardownError", e, exc_arg, FALSE))

\* lines 181-183: server.kill() for every server of the fleet
ExitKillServers(c) ==
    /\ At(c, "exit", "kill")
    /\ \E ok \in BOOLEAN :
         IF ok
         THEN /\ Release(c, Ev("fleet", 0))
              /\ Goto(ExitNext("kill"))
              /\ idx' = 1
         ELSE /\ ExitRaise(c, Ev("fleet", 0))
              /\ UNCHANGED <<held, relOrder>>
    /\ UNCHANGED <<exc_arg, env_extras_cms, acqOrder, scopes, sigint, interactive,
                   enterCalls, lastRet>>
    /\ UNCHANGED <<servers, config, pollVars, logVars, inputVars>>

\* The extra released by iteration i of the loop of line 184 over the list cms.
ExitExtraAt(cms, i) == cms[i]

\* lines 184-185: one iteration: cm.__exit__(exc_type, exc_val, exc_tb), which may
\* raise and whose return value is dropped
ExitExtra(c) ==
    /\ At(c, "exit", "extras")
    /\ idx <= Len(env_extras_cms[c].cms)
    /\ \E ok \in BOOLEAN, ret \in BOOLEAN :
         IF ok
         THEN /\ Release(c, Ev("extra", ExitExtraAt(env_extras_cms[c].cms, idx)))
              /\ lastRet' = ret
              /\ idx' = idx + 1
              /\ Goto("extras")
         ELSE /\ ret = FALSE
              /\ ExitRaise(c, Ev("extra", ExitExtraAt(env_extras_cms[c].cms, idx)))
              /\ UNCHANGED <<held, relOrder, lastRet>>
    /\ UNCHANGED <<exc_arg, env_extras_cms, acqOrder, scopes, sigint, interactive, enterCalls>>
    /\ UNCHANGED <<servers, config, pollVars, logVars, inputVars>>

\* line 187: the loop is over; env_extras_cms = None
ExitClearExtras(c) ==
    /\ At(c, "exit", "extras")
    /\ idx > Len(env_extras_cms[c].cms)
    /\ env_extras_cms' = [env_extras_cms EXCEPT ![c] = CmsNone]
    /\ Goto(ExitNext(ExitNext("extras")))
    /\ idx' = 0
    /\ UNCHANGED <<exc_arg, held, acqOrder, relOrder, scopes, sigint, interactive,
                   enterCalls, lastRet>>
    /\ UNCHANGED <<servers, config, pollVars, logVars, inputVars>>

\* A release statement of lines 189-191 for resource group g, which may raise.
ExitStep(c, g) ==
    /\ At(c, "exit", g)
    /\ \E ok \in BOOLEAN :
         IF ok
         THEN /\ Release(c, Ev(g, 0))
              /\ Goto(ExitNext(g))
              /\ idx' = idx
         ELSE /\ ExitRaise(c, Ev(g, 0))
              /\ UNCHANGED <<held, relOrder>>
    /\ UNCHANGED <<exc_arg, env_extras_cms, acqOrder, scopes, sigint, interactive,
                   enterCalls, lastRet>>
    /\ UNCHANGED <<servers, config, pollVars, logVars, inputVars>>

\* line 189: cache_manager.__exit__(exc_type, exc_val, exc_tb)
ExitCacheManager(c) == ExitStep(c, "cache")

\* line 190: stash.__exit__()
ExitStash(c) == ExitStep(c, "stash")

\* line 191: config_ctx.__exit__(exc_type, exc_val, exc_tb)
ExitConfig(c) == ExitStep(c, "config")

\* lines 192 and 119: server_logging_ctx.__exit__ puts the sentinel on log_queue
ExitLoggingPut(c) ==
    /\ At(c, "exit", "logging")
    /\ buffers' = [buffers EXCEPT ![c] = put(@, "main", None)]
    /\ produced' = [produced EXCEPT ![c] = Append(@, None)]
    /\ waited' = 0
    /\ Goto(ExitNext("logging"))
    /\ UNCHANGED <<idx, exc_arg, env_extras_cms, held, acqOrder, relOrder, scopes, sigint,
                   interactive, enterCalls, lastRet>>
    /\ UNCHANGED <<servers, config, pollVars, inputVars>>
    /\ UNCHANGED <<log_queue, delivered, thread>>

\* line 121: join(1) keeps waiting: the thread is alive and the timeout has not elapsed
JoinWait(c) ==
    /\ At(c, "exit", "join")
    /\ thread[c] # "done"
    /\ ~JoinExpired(waited)
    /\ waited' = waited + 1
    /\ UNCHANGED lifecycleVars
    /\ UNCHANGED <<servers, config, pollVars, inputVars>>
    /\ UNCHANGED <<buffers, log_queue, produced, delivered, thread>>

\* line 121: join(1) returns: the thread has ended or the timeout has elapsed; the
\* logging context's __exit__ returns and __exit__ falls off its end
JoinReturn(c) ==
    /\ At(c, "exit", "join")
    /\ thread[c] = "done" \/ JoinExpired(waited)
    /\ waited' = 0
    /\ Release(c, Ev("logging", 0))
    /\ EndCall(c, Returned("exit", ExitReturn(lastRet), FALSE))
    /\ UNCHANGED <<exc_arg, env_extras_cms, acqOrder, scopes, sigint, interactive,
                   enterCalls, lastRet>>
    /\ UNCHANGED <<servers, config, pollVars, inputVars>>
    /\ UNCHANGED <<buffers, log_queue, produced, delivered, thread>>

\* ------------------------------------------ queue feeders, consumer, workers
\* The feeder thread of process p writes the oldest item of p's buffer to the pipe of
\* c's log_queue.
Feed(c, p) ==
    /\ buffers[c][p] # <<>>
    /\ buffers' = [buffers EXCEPT ![c][p] = Tail(@)]
    /\ log_queue' = [log_queue EXCEPT ![c] = Append(@, Head(buffers[c][p]))]
    /\ UNCHANGED lifecycleVars
    /\ UNCHANGED <<servers, config, pollVars, inputVars>>
    /\ UNCHANGED <<produced, delivered, thread, waited>>

\* proxy.LogQueueThread.run: one get from the queue; the sentinel ends the thread, any
\* other record goes to server_logger, which emits what its component_filter returns.
LogQueueThreadRun(c) ==
    /\ thread[c] = "running"
    /\ log_queue[c] # <<>>
    /\ log_queue' = [log_queue EXCEPT ![c] = Tail(@)]
    /\ IF Head(log_queue[c]) = None
       THEN /\ thread' = [thread EXCEPT ![c] = "done"]
            /\ UNCHANGED delivered
       ELSE /\ delivered' = [delivered EXCEPT ![c] =
                               IF component_filter(Head(log_queue[c])) = Dropped
                               THEN @
                               ELSE Append(@, component_filter(Head(log_queue[c])))]
            /\ UNCHANGED thread
    /\ UNCHANGED lifecycleVars
    /\ UNCHANGED <<servers, config, pollVars, inputVars>>
    /\ UNCHANGED <<buffers, produced, waited>>

\* lines 82-95, 62-63: the worker process p calls one of LoggerProxy's methods on the
\* handle that __enter__ returned.
Produce(c, p) ==
    /\ thread[c] # "new"
    /\ Len(SelectSeq(produced[c], IsRecord)) < MaxRecords
    /\ \E lvl \in Range(LogLevels) :
          /\ buffers' = [buffers EXCEPT ![c] = put(@, p, lvl)]
          /\ produced' = [produced EXCEPT ![c] = Append(@, lvl)]
    /\ UNCHANGED lifecycleVars
    /\ UNCHANGED <<servers, config, pollVars, inputVars>>
    /\ UNCHANGED <<log_queue, delivered, thread, waited>>

\* ------------------------------------------------------------ specifications
Next ==
    \/ \E c \in Envs : EnterLogging(c)
    \/ \E c \in Envs : ConfigPorts(c)
    \/ \E c \in Envs : ConfigOverride(c)
    \/ \E c \in Envs : ConfigSsl(c)
    \/ \E c \in Envs : ConfigBrowserHost(c)
    \/ \E c \in Envs : ConfigBindAddress(c)
    \/ \E c \in Envs : ConfigServerHost(c)
    \/ \E c \in Envs : EnterConfig(c)
    \/ \E c \in Envs : EnterStash(c)
    \/ \E c \in Envs : EnterCacheManager(c)
    \/ \E c \in Envs : EnterCheckNotNested(c)
    \/ \E c \in Envs : EnterExtra(c)
    \/ \E c \in Envs : EnterGetRoutes(c)
    \/ \E c \in Envs : EnterServeStart(c)
    \/ \E c \in Envs : EnterInterrupts(c)
    \/ \E c \in Envs, e \in {"none", "exc"} : ExitProcessInterrupts(c, e)
    \/ \E c \in Envs : ExitKillServers(c)
    \/ \E c \in Envs : ExitExtra(c)
    \/ \E c \in Envs : ExitClearExtras(c)
    \/ \E c \in Envs : ExitCacheManager(c)
    \/ \E c \in Envs : ExitStash(c)
    \/ \E c \in Envs : ExitConfig(c)
    \/ \E c \in Envs : ExitLoggingPut(c)
    \/ \E c \in Envs : JoinWait(c)
    \/ \E c \in Envs : JoinReturn(c)
    \/ \E c \in Envs : Feed(c, "main")
    \/ \E c \in Envs : LogQueueThreadRun(c)

Spec == Init /\ [][Next]_vars

\* Object 1 was entered and its __exit__, no step of which raised, is about to run
\* line 192; nothing has been logged so far. From here on a worker process logs.
InitLog ==
    /\ cur = 1
    /\ op = "exit"
    /\ pc = "logging"
    /\ idx = 0
    /\ exc_arg = "none"
    /\ env_extras_cms = [c \in Envs |-> CmsNone]
    /\ held = [c \in Envs |-> [e \in ResKeys |->
                  IF c = 1 /\ e = Ev("logging", 0) THEN 1 ELSE 0]]
    /\ acqOrder = [c \in Envs |-> IF c = 1
                     THEN <<Ev("logging", 0), Ev("config", 0), Ev("stash", 0), Ev("cache", 0)>>
                          \o [k \in 1..NumExtras |-> Ev("extra", env_extras[k])]
                          \o <<Ev("fleet", 0)>>
                     ELSE <<>>]
    /\ relOrder = <<Ev("fleet", 0)>> \o [k \in 1..NumExtras |-> Ev("extra", env_extras[k])]
                     \o <<Ev("cache", 0), Ev("stash", 0), Ev("config", 0)>>
    /\ outcome = [NoOutcome EXCEPT !.op = "exit", !.status = "running"]
    /\ scopes = [c \in Envs |-> 0]
    /\ sigint = "SIG_DFL"
    /\ interactive = [c \in Envs |-> FALSE]
    /\ enterCalls = [c \in Envs |-> IF c = 1 THEN 1 ELSE 0]
    /\ lastRet = FALSE
    /\ servers = [c \in Envs |-> IF c = 1 THEN HttpFleet ELSE <<>>]
    /\ config = [c \in Envs |-> IF c = 1 THEN DefaultConfig ELSE NoConfig]
    /\ PollerNotCalled
    /\ buffers = [c \in Envs |-> [p \in Procs |-> <<>>]]
    /\ log_queue = [c \in Envs |-> <<>>]
    /\ produced = [c \in Envs |-> <<>>]
    /\ delivered = [c \in Envs |-> <<>>]
    /\ thread = [c \in Envs |-> IF c = 1 THEN "running" ELSE "new"]
    /\ waited = 0
    /\ DefaultArguments

NextLog ==
    \/ \E p \in Workers : Produce(1, p)
    \/ \E p \in Procs : Feed(1, p)
    \/ LogQueueThreadRun(1)
    \/ ExitLoggingPut(1)
    \/ JoinWait(1)
    \/ JoinReturn(1)

SpecLog == InitLog /\ [][NextLog]_vars

\* The join of line 121 is a timed wait: time passes, whatever the other threads do.
SpecLogFair == SpecLog /\ WF_vars(JoinWait(1) \/ JoinReturn(1))

\* __enter__ of object 1 has started the consumer thread and is about to run
\* build_config, on objects constructed with any of the arguments.
InitConfig ==
    /\ cur = 1
    /\ op = "enter"
    /\ pc = EnterNext("logging")
    /\ idx = 0
    /\ exc_arg = "none"
    /\ env_extras_cms = [c \in Envs |-> CmsNone]
    /\ held = [c \in Envs |-> [e \in ResKeys |->
                  IF c = 1 /\ e = Ev("logging", 0) THEN 1 ELSE 0]]
    /\ acqOrder = [c \in Envs |-> IF c = 1 THEN <<Ev("logging", 0)>> ELSE <<>>]
    /\ relOrder = <<>>
    /\ outcome = [NoOutcome EXCEPT !.op = "enter", !.status = "running"]
    /\ scopes = [c \in Envs |-> 0]
    /\ sigint = "SIG_DFL"
    /\ interactive = [c \in Envs |-> FALSE]
    /\ enterCalls = [c \in Envs |-> IF c = 1 THEN 1 ELSE 0]
    /\ lastRet = FALSE
    /\ servers = [c \in Envs |-> <<>>]
    /\ config = [c \in Envs |-> NoConfig]
    /\ PollerNotCalled
    /\ buffers = [c \in Envs |-> [p \in Procs |-> <<>>]]
    /\ log_queue = [c \in Envs |-> <<>>]
    /\ produced = [c \in Envs |-> <<>>]
    /\ delivered = [c \in Envs |-> <<>>]
    /\ thread = [c \in Envs |-> IF c = 1 THEN "running" ELSE "new"]
    /\ waited = 0
    /\ enable_quic \in BOOLEAN
    /\ options \in OptionBags
    /\ override_obj \in Overrides

NextConfig ==
    \/ ConfigPorts(1)
    \/ ConfigOverride(1)
    \/ ConfigSsl(1)
    \/ ConfigBrowserHost(1)
    \/ ConfigBindAddress(1)
    \/ ConfigServerHost(1)
    \/ EnterConfig(1)

SpecConfig == InitConfig /\ [][NextConfig]_vars

\* ====================================================== readiness poller
\* ensure_started's constants; one tick is each_sleep_secs (0.5 s).
total_sleep_secs == 30
TicksPerSec == 2
each_sleep_ticks == 1
MaxPollTicks == 1       \* longest time one test_servers call takes, in ticks

\* config["server_host"], the host test_servers connects to
host == "server_host"

\* "%s" % port
ToStr(n) ==
    CASE n = 8000 -> "8000"
      [] n = 8001 -> "8001"
      [] n = 8443 -> "8443"
      [] n = 10000 -> "10000"

\* servers.items() unrolled: every (scheme, port) in iteration order (lines 302-303)
RECURSIVE ServerList(_)
ServerList(f) ==
    IF f = <<>> THEN <<>>
    ELSE [i \in DOMAIN f[1][2] |-> <<f[1][1], f[1][2][i]>>] \o ServerList(Tail(f))

PortsOf(f) == {ServerList(f)[i][2] : i \in DOMAIN ServerList(f)}

\* lines 302-305: the (scheme, port) of every server whose is_alive() is false
FailedServers(f, a) ==
    LET NotAlive(sp) == ~a[sp[2]] IN SelectSeq(ServerList(f), NotAlive)

\* ProbedServers probing whether or not a server has failed.
ProbedServersAlways(f, fl, tsp) ==
    LET Probeable(sp) == sp[1] # "quic-transport" IN
    IF tsp THEN SelectSeq(ServerList(f), Probeable) ELSE <<>>

\* ProbedServers without the exemption of the quic-transport scheme.
ProbedServersWithQuic(f, fl, tsp) ==
    IF fl = <<>> /\ tsp THEN ServerList(f) ELSE <<>>

\* ProbedServers probing whatever the test_server_port option says.
ProbedServersIgnoreOption(f, fl, tsp) ==
    LET Probeable(sp) == sp[1] # "quic-transport" IN
    IF fl = <<>> THEN SelectSeq(ServerList(f), Probeable) ELSE <<>>

\* lines 307-312: the servers test_servers connects to, given the failed list fl
ProbedServers(f, fl, tsp) ==
    LET Probeable(sp) == sp[1] # "quic-transport" IN
    IF fl = <<>> /\ tsp THEN SelectSeq(ServerList(f), Probeable) ELSE <<>>

\* lines 313-316: the connections attempted, in order
Connections(probed) == [i \in DOMAIN probed |-> <<host, probed[i][2]>>]

\* lines 315-318: the (host, port) of every attempted connection that failed
PendingServers(conns, l) ==
    LET Refused(hp) == ~l[hp[2]] IN SelectSeq(conns, Refused)

\* lines 298-322: test_servers under liveness a and reachability l
test_servers(f, a, l, tsp) ==
    LET fl == FailedServers(f, a)
        conns == Connections(ProbedServers(f, fl, tsp))
    IN [failed |-> fl, pending |-> PendingServers(conns, l), connects |-> conns]

\* "%s:%s" % item
FormatItem(item) == <<item[1], ":", ToStr(item[2])>>

\* sep.join(parts)
RECURSIVE Join(_, _)
Join(sep, parts) ==
    IF parts = <<>> THEN <<>>
    ELSE IF Len(parts) = 1 THEN parts[1]
    ELSE parts[1] \o <<sep>> \o Join(sep, Tail(parts))

\* ErrorMessage joining the items with a bare comma.
ErrorMessageBareComma(fl) ==
    <<"Servers failed to start: ">>
        \o Join(",", [i \in DOMAIN fl |-> <<fl[i][1], ":", ToStr(fl[i][2])>>])

\* lines 295-296: the message of the EnvironmentError
ErrorMessage(fl) ==
    <<"Servers failed to start: ">> \o Join(", ", [i \in DOMAIN fl |-> FormatItem(fl[i])])

\* AfterPoll returning when servers are pending instead of when none is.
AfterPollInverted(fl, pd) ==
    IF fl # <<>> THEN "raised"
    ELSE IF pd # <<>> THEN "returned"
    ELSE "sleep"

\* lines 290-294: what the loop body does with the result of a poll
AfterPoll(fl, pd) ==
    IF fl # <<>> THEN "raised"
    ELSE IF pd = <<>> THEN "returned"
    ELSE "sleep"

\* end_time with the loop condition admitting the instant the budget ends.
end_time_inclusive == total_sleep_secs * TicksPerSec + 1

\* line 287: end_time, in ticks since the call
end_time == total_sleep_secs * TicksPerSec

\* ensure_started is called on an entered TestEnvironment (object 1): lines 285-287
InitPoll ==
    /\ \E f \in Fleets : Entered(f)
    /\ test_server_port \in BOOLEAN
    /\ alive = [p \in PortsOf(servers[cur]) |-> TRUE]
    /\ listening = [p \in PortsOf(servers[cur]) |-> FALSE]
    /\ ppc = "loop"
    /\ now = 0
    /\ failed = <<>>
    /\ pending = <<>>
    /\ connects = <<>>
    /\ message = <<>>
    /\ polls = 0
    /\ sleeps = 0

\* lines 288-293: the loop condition holds; one test_servers call, which sees liveness a
\* and reachability l and takes d ticks; break and raise, return, or go on to sleep
PollServers ==
    /\ ppc = "loop"
    /\ now < end_time
    /\ \E a \in [PortsOf(servers[cur]) -> BOOLEAN], l \in [PortsOf(servers[cur]) -> BOOLEAN],
          d \in 0..MaxPollTicks :
         LET r == test_servers(servers[cur], a, l, test_server_port) IN
         /\ alive' = a
         /\ listening' = l
         /\ now' = now + d
         /\ failed' = r.failed
         /\ pending' = r.pending
         /\ connects' = r.connects
         /\ ppc' = AfterPoll(r.failed, r.pending)
         /\ message' = IF AfterPoll(r.failed, r.pending) = "raised"
                       THEN ErrorMessage(r.failed) ELSE message
    /\ polls' = polls + 1
    /\ UNCHANGED <<servers, test_server_port, sleeps>>
    /\ UNCHANGED <<lifecycleVars, config, logVars, inputVars>>

\* line 294: time.sleep(each_sleep_secs)
Sleep ==
    /\ ppc = "sleep"
    /\ now' = now + each_sleep_ticks
    /\ sleeps' = sleeps + 1
    /\ ppc' = "loop"
    /\ UNCHANGED <<servers, test_server_port, alive, listening, failed, pending, connects,
                   message, polls>>
    /\ UNCHANGED <<lifecycleVars, config, logVars, inputVars>>

\* lines 288, 295-296: the loop condition fails; raise with the failed list of the last poll
BudgetElapsed ==
    /\ ppc = "loop"
    /\ now >= end_time
    /\ ppc' = "raised"
    /\ message' = ErrorMessage(failed)
    /\ UNCHANGED <<servers, test_server_port, alive, listening, now, failed, pending,
                   connects, polls, sleeps>>
    /\ UNCHANGED <<lifecycleVars, config, logVars, inputVars>>

NextPoll ==
    \/ PollServers
    \/ Sleep
    \/ BudgetElapsed

SpecPoll == InitPoll /\ [][NextPoll]_vars

\* ================================================================ claims
Group(e) == e[1]
Other(c) == CHOOSE d \in Envs : d # c

ExitEnded == Idle /\ op = "exit"
EnterEnded == Idle /\ op = "enter"

\* C1: after an __enter__ and the __exit__ that matches it, neither raising, every
\* resource acquired was released, and of two resource groups (logging, config, stash,
\* cache, extras, fleet) the one acquired later was released earlier.
C1_ReleaseReversesAcquire ==
    (ExitEnded /\ outcome.status = "returned") =>
        /\ Range(acqOrder[cur]) \subseteq Range(relOrder)
        /\ \A i, j \in DOMAIN acqOrder[cur] :
             (i < j /\ Group(acqOrder[cur][i]) # Group(acqOrder[cur][j])) =>
                \A p, q \in DOMAIN relOrder :
                    (/\ Group(relOrder[p]) = Group(acqOrder[cur][i])
                     /\ Group(relOrder[q]) = Group(acqOrder[cur][j])) => q < p

C1_Witness ==
    /\ ExitEnded
    /\ outcome.status = "returned"
    /\ Len(acqOrder[cur]) = 5 + NumExtras
    /\ Len(relOrder) = 5 + NumExtras

\* The release steps of __exit__ that were executed: those that released their resource
\* and the one that raised.
Executed == Range(relOrder) \cup {outcome.at}

\* C2 (as claimed): when __exit__ has ended, by returning or by raising, every release
\* step has been executed: the cache manager, the stash, the config scope and the
\* logging proxy are released even if an earlier step raised.
C2_AllReleaseStepsRun ==
    ExitEnded =>
        {Ev("cache", 0), Ev("stash", 0), Ev("config", 0), Ev("logging", 0)} \subseteq Executed

\* C3 (as claimed): when __enter__ has failed because an extra's start hook or the
\* server fleet raised, nothing the object acquired is left unreleased.
C3_FailedEnterLeavesNothing ==
    (EnterEnded /\ outcome.status = "raised" /\ outcome.raised = "StartError") =>
        \A e \in ResKeys : held[cur][e] = 0

\* C4 (as claimed): an __enter__ called on an object whose scope is active starts no
\* extra and no server fleet, and ends by raising the "cannot be nested" AssertionError.
C4_NestedEnterRejected ==
    (op = "enter" /\ outcome.nested) =>
        /\ \A i \in DOMAIN acqOrder[cur] : Group(acqOrder[cur][i]) \notin {"extra", "fleet"}
        /\ Idle => (outcome.status = "raised" /\ outcome.raised = "AssertionError")

\* C5 (as claimed): at most one object in the process has an active scope.
C5_OneScopeInProcess ==
    Cardinality({c \in Envs : scopes[c] > 0}) <= 1

\* C6: __exit__ never returns a truthy value, so it never suppresses the caller's
\* exception, whatever the extras' __exit__ returned; and when a release step raises,
\* the exception raised carries the caller's exception as its context.
C6_ExitNeverMasks ==
    ExitEnded =>
        /\ outcome.status = "returned" => outcome.suppress = FALSE
        /\ outcome.status = "raised" => outcome.context = exc_arg

C6_Witness ==
    /\ ExitEnded
    /\ outcome.status = "returned"
    /\ exc_arg = "exc"
    /\ lastRet = TRUE

\* The (scheme, port) of every server of the fleet whose handle was not alive at the
\* latest poll.
NotAliveNow == {sp \in Range(ServerList(servers[cur])) : ~alive[sp[2]]}

Polled == polls >= 1

\* C7: a poll that yields a non-empty failed list ends ensure_started on that poll, with
\* no sleep after it, and the error raised reads "Servers failed to start: " followed by
\* the "scheme:port" of every server not alive at that poll, joined by ", ".
C7_FailedPollAborts ==
    (Polled /\ failed # <<>>) =>
        /\ ppc = "raised"
        /\ sleeps = polls - 1
        /\ Range(failed) = NotAliveNow
        /\ Len(message) = 4 * Len(failed)
        /\ message[1] = "Servers failed to start: "
        /\ \A i \in DOMAIN failed :
              /\ message[4 * i - 2] = failed[i][1]
              /\ message[4 * i - 1] = ":"
              /\ message[4 * i] = ToStr(failed[i][2])
              /\ i < Len(failed) => message[4 * i + 1] = ", "

C7_Witness ==
    /\ ppc = "raised"
    /\ polls = 1
    /\ sleeps = 0
    /\ message = <<"Servers failed to start: ", "https", ":", "8443">>

\* C8 (as claimed): when the budget elapses with every poll pending and none failed,
\* the error raised enumerates the servers still pending: its list is not empty.
C8_TimeoutNamesPending ==
    (ppc = "raised" /\ failed = <<>>) => Len(message) > 1

\* C9: ensure_started returns exactly when a poll yields an empty failed and an empty
\* pending list: it returns on that poll, every earlier poll was followed by a sleep,
\* nothing follows the last one, and no error is raised.
C9_ReturnsOnFirstReadyPoll ==
    /\ (Polled /\ failed = <<>> /\ pending = <<>>) => ppc = "returned"
    /\ ppc = "returned" =>
          /\ failed = <<>>
          /\ pending = <<>>
          /\ sleeps = polls - 1
          /\ message = <<>>

C9_Witness ==
    /\ ppc = "returned"
    /\ test_server_port
    /\ polls >= 3
    /\ sleeps = polls - 1

\* C10: whenever a handle is not alive, test_servers returns as failed exactly the
\* (scheme, port) of the handles not alive, returns nothing pending and attempts no
\* connection.
C10_DeadServerShortCircuits ==
    (Polled /\ \E p \in PortsOf(servers[cur]) : ~alive[p]) =>
        /\ Range(failed) = NotAliveNow
        /\ Len(failed) = Cardinality(NotAliveNow)
        /\ pending = <<>>
        /\ connects = <<>>

C10_Witness ==
    /\ Polled
    /\ test_server_port
    /\ \E sp \in Range(ServerList(servers[cur])) : ~alive[sp[2]]
    /\ \E sp \in Range(ServerList(servers[cur])) :
          sp[1] # "quic-transport" /\ alive[sp[2]] /\ ~listening[sp[2]]

\* The (host, port) of every server on a probeable scheme whose port refused the
\* connection at the latest poll.
RefusedNow ==
    {<<host, sp[2]>> : sp \in {x \in Range(ServerList(servers[cur])) :
                                  x[1] # "quic-transport" /\ ~listening[x[2]]}}

AllAliveNow == \A p \in PortsOf(servers[cur]) : alive[p]

\* C11: with every handle alive and port verification enabled, test_servers returns
\* nothing failed and as pending exactly the (host, port) of the servers on probeable
\* schemes whose connection failed; a quic-transport server is never connected to and
\* never pending, whether or not its port is reachable.
C11_PendingAreRefusedProbes ==
    (Polled /\ AllAliveNow /\ test_server_port) =>
        /\ failed = <<>>
        /\ Range(pending) = RefusedNow
        /\ Len(pending) = Cardinality(RefusedNow)
        /\ \A i \in DOMAIN connects :
              \A sp \in Range(ServerList(servers[cur])) :
                  sp[2] = connects[i][2] => sp[1] # "quic-transport"

C11_Witness ==
    /\ Polled
    /\ AllAliveNow
    /\ test_server_port
    /\ \E sp \in Range(ServerList(servers[cur])) : sp[1] = "quic-transport" /\ ~listening[sp[2]]
    /\ failed = <<>>
    /\ pending = <<>>
    /\ connects = <<<<host, 8443>>>>

PollEnded == ppc \in {"returned", "raised"}

\* C19: ensure_started ends, by returning or by raising: until it has ended it can
\* always take its next step, and it takes at most 60 polls and as many sleeps. It polls
\* at least once and at most 60 times (30 s of budget, 0.5 s of sleep after each poll
\* but the last), sleeps only after a poll with nothing failed and something pending,
\* and polls only while the budget has not elapsed.
C19_PollingIsBounded ==
    /\ [](/\ polls <= total_sleep_secs * TicksPerSec
          /\ sleeps <= polls
          /\ PollEnded \/ ENABLED NextPoll
          /\ PollEnded => polls >= 1
          /\ ppc = "sleep" => (failed = <<>> /\ pending # <<>>))
    /\ [][polls' # polls => now < total_sleep_secs * TicksPerSec]_vars

C19_Witness ==
    /\ ppc = "raised"
    /\ polls = total_sleep_secs * TicksPerSec
    /\ sleeps = polls
    /\ now = total_sleep_secs * TicksPerSec

\* C20: with test_server_port false, test_servers attempts no connection and returns
\* nothing pending, so ensure_started never sleeps and ends on its first poll: it
\* returns when every handle is alive and raises otherwise, reachable ports or not.
C20_NoPortCheckDecidesAtOnce ==
    ~test_server_port =>
        /\ connects = <<>>
        /\ pending = <<>>
        /\ sleeps = 0
        /\ polls <= 1
        /\ Polled => /\ AllAliveNow => ppc = "returned"
                     /\ ~AllAliveNow => ppc = "raised"

C20_Witness ==
    /\ ~test_server_port
    /\ ppc = "returned"
    /\ \E sp \in Range(ServerList(servers[cur])) : sp[1] # "quic-transport" /\ ~listening[sp[2]]

\* C15: SIGINT is ignored only after an object that debugs interactively has started
\* its fleet and entered its scope, and __exit__ restores the default disposition
\* before anything else: whenever __exit__ is executing a release step, or has ended,
\* the disposition is the default one.
C15_InterruptsRestoredFirst ==
    /\ op = "exit" => sigint = "SIG_DFL"
    /\ sigint = "SIG_IGN" =>
          \E c \in Envs : interactive[c] /\ scopes[c] > 0 /\ held[c][Ev("fleet", 0)] > 0

C15_Witness ==
    /\ op = "exit"
    /\ pc = "kill"
    /\ relOrder = <<>>
    /\ interactive[cur]
    /\ ~interactive[Other(cur)]
    /\ sigint = "SIG_DFL"

IsExtra(e) == Group(e) = "extra"

\* C17 (as claimed): after an __exit__ that did not raise, the extras were released in
\* the reverse of the order in which __enter__ started them, and the extras record is
\* cleared.
C17_ExtrasReleasedInReverse ==
    (ExitEnded /\ outcome.status = "returned") =>
        /\ SelectSeq(relOrder, IsExtra) =
              [k \in 1..NumExtras |-> Ev("extra", env_extras[NumExtras + 1 - k])]
        /\ env_extras_cms[cur] = CmsNone

IsPrefix(s, t) == Len(s) <= Len(t) /\ \A i \in DOMAIN s : s[i] = t[i]

ExtrasInOrder == [k \in 1..NumExtras |-> Ev("extra", env_extras[k])]

\* The order of acquisition the claim states: cache manager before stash.
ClaimedEnterOrder ==
    <<Ev("logging", 0), Ev("config", 0), Ev("cache", 0), Ev("stash", 0)>>
        \o ExtrasInOrder \o <<Ev("fleet", 0)>>

\* The order of acquisition of lines 152-172: stash before cache manager.
CodeEnterOrder ==
    <<Ev("logging", 0), Ev("config", 0), Ev("stash", 0), Ev("cache", 0)>>
        \o ExtrasInOrder \o <<Ev("fleet", 0)>>

\* C18 (as claimed): __enter__ acquires logging proxy, configuration, cache manager,
\* stash, the extras in the caller's order, the fleet.
C18_EnterOrderCacheFirst ==
    op = "enter" => IsPrefix(acqOrder[cur], ClaimedEnterOrder)

\* C18 (amended): __enter__ acquires logging proxy, configuration, stash, cache manager,
\* then after the nesting check the extras in the caller's order, then builds the routes,
\* then starts the fleet, then optionally suppresses SIGINT: the stash is started before
\* the cache manager and the fleet only after every extra.
C18_EnterOrder ==
    op = "enter" =>
        /\ IsPrefix(acqOrder[cur], CodeEnterOrder)
        /\ pc = "check_nested" => Len(acqOrder[cur]) = 4
        /\ pc = "serve_start" => Len(acqOrder[cur]) = 4 + NumExtras
        /\ pc = "interrupts" => acqOrder[cur] = CodeEnterOrder
        /\ (Idle /\ outcome.status = "returned") => acqOrder[cur] = CodeEnterOrder

C18_Witness ==
    /\ EnterEnded
    /\ outcome.status = "returned"
    /\ acqOrder[cur] = CodeEnterOrder
    /\ interactive[cur]
    /\ sigint = "SIG_IGN"

BeforeSentinel(s) ==
    IF None \in Range(s)
    THEN SubSeq(s, 1, (CHOOSE i \in DOMAIN s : s[i] = None /\ \A j \in 1..(i - 1) : s[j] # None) - 1)
    ELSE s

AtLeastInfo(l) == l \in {"critical", "error", "warning", "info"}

\* What the structured logger is to emit for the records s: those of severity info and
\* above, in order, error turned into warning.
Forwarded(s) ==
    [i \in DOMAIN SelectSeq(s, AtLeastInfo) |->
        IF SelectSeq(s, AtLeastInfo)[i] = "error" THEN "warning"
        ELSE SelectSeq(s, AtLeastInfo)[i]]

\* C12 (as claimed): whatever the interleaving of the producers and the consumer thread,
\* once the thread has taken the sentinel, the structured logger has emitted every
\* record put before the sentinel, in put order, debug dropped and error rewritten to
\* warning, and nothing put after it.
C12_RecordsForwardedInOrder ==
    \A c \in Envs :
        thread[c] = "done" => delivered[c] = Forwarded(BeforeSentinel(produced[c]))

\* C13: __exit__ of the logging context puts the sentinel before it joins, the join waits
\* at most join_timeout time units, and it can always take its next step, whatever the
\* consumer thread, the feeders and the workers do: the join always ends, and the step
\* that ends it is the normal return of __exit__.
C13_ShutdownCompletes ==
    /\ [](/\ waited <= join_timeout
          /\ (op = "exit" /\ pc = "join") =>
                /\ None \in Range(produced[cur])
                /\ ENABLED (JoinWait(cur) \/ JoinReturn(cur))
                /\ waited = join_timeout => ENABLED JoinReturn(cur)
          /\ (op = "exit" /\ pc = "logging") => ENABLED ExitLoggingPut(cur)
          /\ (ExitEnded /\ Ev("logging", 0) \in Range(relOrder))
                => outcome.status = "returned")
    /\ [][(op = "exit" /\ pc = "join" /\ pc' # "join")
              => (ExitEnded' /\ outcome'.status = "returned")]_vars
    /\ []<>(~(op = "exit" /\ pc = "join"))

C13_Witness ==
    /\ ExitEnded
    /\ outcome.status = "returned"
    /\ thread[cur] = "running"
    /\ None \in Range(log_queue[cur])
    /\ held[cur][Ev("logging", 0)] = 0

BaselineSchemes == {"http", "https", "ws", "wss", "h2"}

DefaultPorts ==
    [s \in BaselineSchemes |->
        CASE s = "http" -> <<8000, 8001>>
          [] s = "https" -> <<8443, 8444>>
          [] s = "ws" -> <<8888>>
          [] s = "wss" -> <<8889>>
          [] s = "h2" -> <<9000>>]

\* build_config has set the ports table of c's configuration.
PortsSet(c) == config[c] # NoConfig

\* build_config has returned c's configuration.
Built(c) == config[c].doc_root # "None"

\* C14: once build_config has set the ports table, the table has the keys http, https,
\* ws, wss and h2, each with its default ports unless config.json overrides that key, and
\* it has the key quic-transport exactly when enable_quic is set.
C14_PortsTableKeys ==
    \A c \in Envs :
        PortsSet(c) =>
            /\ BaselineSchemes \subseteq DOMAIN config[c].ports
            /\ \A s \in BaselineSchemes :
                  s \notin DOMAIN override_obj.ports => config[c].ports[s] = DefaultPorts[s]
            /\ "quic-transport" \in DOMAIN config[c].ports <=> enable_quic
            /\ DOMAIN config[c].ports \subseteq BaselineSchemes \cup {"quic-transport"}

C14_Witness ==
    /\ Built(1)
    /\ ~enable_quic
    /\ "quic-transport" \in DOMAIN override_obj.ports
    /\ DOMAIN options = OptionNames
    /\ config[1].ports = DefaultPorts

HostOptions == {"browser_host", "bind_address", "server_host"}

\* The value a field has after the defaults and config.json, before the options.
BeforeOptions(k) ==
    IF k \in DOMAIN override_obj.fields THEN override_obj.fields[k] ELSE ConfigBuilder[k]

\* C16 (as claimed): in the configuration build_config returns, browser_host,
\* bind_address and server_host each hold the option's value if the option is in the bag,
\* and otherwise the value they had from the defaults and config.json.
C16_AbsentOptionLeavesValue ==
    \A c \in Envs :
        Built(c) =>
            \A k \in HostOptions :
                config[c][k] = IF k \in DOMAIN options THEN options[k] ELSE BeforeOptions(k)

====
